---- MODULE Spec2Model ----
(***************************************************************************)
(* kubetunnel: the tunnel lifecycle orchestrator.                          *)
(*                                                                         *)
(*   internal/forward.go   Forward, startTunnel                            *)
(*   internal/cluster.go   InitClients, GetClient, GetPodNameByLabel,      *)
(*                         ExecPodCommand, PortForward                     *)
(*   cmd (README.md)       run: one goroutine per site, barrier, signal    *)
(*                                                                         *)
(* The specifications:                                                     *)
(*   Spec             a whole session of run                               *)
(*   SpecForward      one call of Forward by a caller that afterwards      *)
(*                    holds the returned stop handles and may invoke them  *)
(*   SpecStartTunnel  the same call, the handles never invoked             *)
(*   SpecForwardFair  the same call with fair background forwarders        *)
(*   SpecRegistry     goroutines calling InitClients and GetClient, with   *)
(*                    the steps of the registry's RWMutex                  *)
(*   SpecLocks        a session of run, or the goroutines of SpecRegistry  *)
(***************************************************************************)
EXTENDS Integers, Sequences, FiniteSets, TLC

\* ------------------------------------------------------------------ bounds
\* Longest list of site arguments of a session.
MaxSites == 2
\* Longest list of service names of a Forward request.
MaxServices == 2
\* How often the caller of Forward may invoke one returned stop handle.
MaxStopCalls == 2
\* Longest list of contexts handed to InitClients.
MaxContexts == 2

\* ----------------------------------------------------------- configuration
\* internal.Cfg after Init(configPath): the scenario of the specification
\* (site s1 with a: 100 -> 200 and b: 101 -> 201) and a second site whose
\* service reaches the same pod port.
Cfg ==
  [ s1 |-> [ KubeContext |-> "c1",
             Services |-> [ a |-> [DefaultPort |-> 200, LocalPort |-> 100],
                            b |-> [DefaultPort |-> 201, LocalPort |-> 101] ] ],
    s2 |-> [ KubeContext |-> "c2",
             Services |-> [ a |-> [DefaultPort |-> 200, LocalPort |-> 102] ] ] ]

SiteNames == DOMAIN Cfg
\* What may be typed on the command line: configured and unknown names.
SiteArgs == SiteNames \cup {"nosite"}
ServiceArgs == {"a", "b", "missing"}
RemotePorts == {200, 201}

SeqsUpTo(S, n) == UNION {[1..k -> S] : k \in 0..n}
\* Go's map iteration order is unspecified: every order of the keys.
Perms(S) == {f \in [1..Cardinality(S) -> S] : \A x \in S : \E n \in DOMAIN f : f[n] = x}
MaxOf(a, b) == IF a >= b THEN a ELSE b

\* One goroutine per launched site, named by its position in sitesToUse.
Tasks == 1..MaxOf(MaxSites, Cardinality(SiteNames))
\* A tunnel attempt: the k-th requested service of task t.
Handles == Tasks \X (1..MaxServices)
\* The cluster contexts of the configuration.
Contexts == {Cfg[s].KubeContext : s \in SiteNames}
\* The goroutines of SpecRegistry: two callers that use the registry at the
\* same time.
Callers == {1, 2}

VARIABLES
  sitesToUse,          \* run: the sites to process (args, or every configured site)
  servicesToUse,       \* run: the --services flag
  mainPc,              \* position of run: "loop","wait","count","blocked","stopping","done"; "none" outside a session
  i,                   \* run: index of the site loop
  j,                   \* run: index of the shutdown loop
  wg,                  \* run: sync.WaitGroup counter
  mu,                  \* run: holder of the mutex mu: << >> (free), <<"main">> or <<"task", t>>
  allActiveStopFuncs,  \* run: the shared collection of stop handles
  signalChan,          \* run: number of signals buffered in signalChan (capacity 1)
  proc,                \* the process: "running","exited","killed","panicked"
  task,                \* per site goroutine: its position in Forward / startTunnel
  clientMap,           \* cluster.go: contexts registered in clientMap
  mutex,               \* cluster.go: the RWMutex of clientMap: its writer (0: none) and its readers
  rp,                  \* per registry goroutine: its call of InitClients or GetPodNameByLabel
  writes,              \* history: per context, the assignments clientMap[ctx] = clientset
  pod,                 \* the relay pod: installed tools and listening ports
  launches,            \* the relay pod: per port, relay launch commands issued
  fw,                  \* per PortForward call: background forwarder, ready and stop channels
  established,         \* history: the handles PortForward returned a stop func for
  calls,               \* history: per task, the operations issued, in order
  stopCalls            \* history: per handle, invocations of the returned stop func

vars == << sitesToUse, servicesToUse, mainPc, i, j, wg, mu, allActiveStopFuncs,
           signalChan, proc, task, clientMap, mutex, rp, writes, pod, launches, fw,
           established, calls, stopCalls >>

mainVars == << sitesToUse, servicesToUse, mainPc, i, j, wg, mu, allActiveStopFuncs, signalChan >>

regVars == << mutex, rp >>

\* ------------------------------------------------------------ initial state
NoRet == [handles |-> << >>, err |-> FALSE, failed |-> 0, total |-> 0, causes |-> << >>]

IdleTask ==
  [pc |-> "none", site |-> "", services |-> << >>, k |-> 1,
   errs |-> << >>, stops |-> << >>, ret |-> NoRet]

NoForward == [st |-> "none", ready |-> FALSE, stop |-> "open"]

\* A registry goroutine that has no call to make.
IdleCaller ==
  [op |-> "none", pc |-> "idle", ctxs |-> << >>, n |-> 1,
   done |-> << >>, err |-> "", got |-> "none", seen |-> 0]

\* The pod as a session may find it: tools installed or not, a package
\* manager present or not, relays of an earlier session still listening
\* (a relay listens only where socat is installed, and was started from
\* its generated script /tmp/run_socat_PORT.sh with its log
\* /tmp/socat_PORT.log).
PodEnvs ==
  { e \in [socat : BOOLEAN, lsof : BOOLEAN, pkg : BOOLEAN, listening : SUBSET RemotePorts,
            scripts : SUBSET RemotePorts, logs : SUBSET RemotePorts] :
      /\ e.listening # {} => e.socat
      /\ e.scripts = e.listening
      /\ e.logs = e.listening }

InitShared ==
  /\ clientMap = {}
  /\ mutex = [w |-> 0, r |-> {}]
  /\ writes = [c \in Contexts |-> 0]
  /\ pod \in PodEnvs
  /\ launches = [p \in RemotePorts |-> 0]
  /\ fw = [h \in Handles |-> NoForward]
  /\ established = {}
  /\ calls = [t \in Tasks |-> << >>]
  /\ stopCalls = [h \in Handles |-> 0]
  /\ proc = "running"
  /\ i = 1
  /\ j = 1
  /\ wg = 0
  /\ mu = << >>
  /\ allActiveStopFuncs = << >>
  /\ signalChan = 0

\* A session is run against a prepared pod (socat and lsof installed, no
\* package manager needed, no relay left over); the installation paths of
\* the init script and a pod without lsof are explored by SpecForward.
SessionPods == {e \in PodEnvs : e.socat /\ e.lsof /\ ~e.pkg /\ e.listening = {}}

\* The --services flag of a session: absent, or naming one service (longer
\* requests are explored by SpecForward).
SessionFlags == {<< >>} \cup {<<s>> : s \in ServiceArgs}

\* The site arguments of a session: each site named once.
SiteLists ==
  {ss \in SeqsUpTo(SiteArgs, MaxSites) \ {<< >>} :
     \A m, n \in DOMAIN ss : m # n => ss[m] # ss[n]}

\* run, lines 115-125: no args means every configured site, in map order.
Init ==
  /\ InitShared
  /\ pod \in SessionPods
  /\ servicesToUse \in SessionFlags
  /\ sitesToUse \in SiteLists \cup Perms(SiteNames)
  /\ mainPc = "loop"
  /\ task = [t \in Tasks |-> IdleTask]
  /\ rp = [p \in Callers |-> IdleCaller]

\* A caller outside run calls Forward(site, services...) once.
InitForward ==
  /\ InitShared
  /\ servicesToUse = << >>
  /\ sitesToUse = << >>
  /\ mainPc = "none"
  /\ \E s \in SiteArgs, svcs \in SeqsUpTo(ServiceArgs, MaxServices) :
       task = [t \in Tasks |-> IF t = 1
                 THEN [IdleTask EXCEPT !.pc = "enter", !.site = s, !.services = svcs]
                 ELSE IdleTask]
  /\ rp = [p \in Callers |-> IdleCaller]

\* ------------------------------------------------------------------ helpers
Alive == proc = "running"

SiteOf(t) == Cfg[task[t].site]
ServiceOf(t) == SiteOf(t).Services[task[t].services[task[t].k]]
HandleOf(t) == <<t, task[t].k>>
\* The local port a PortForward call binds.
LocalPortOf(h) == Cfg[task[h[1]].site].Services[task[h[1]].services[h[2]]].LocalPort
\* Local ports held by a background forwarder.
BoundPorts == {LocalPortOf(h) : h \in {x \in Handles : fw[x].st = "listening"}}

\* The history of operations is kept for a call of Forward by an outside
\* caller (SpecForward); a session does not record it.
Issue(t, op) ==
  calls' = IF mainPc = "none" THEN [calls EXCEPT ![t] = Append(@, <<task[t].k, op>>)] ELSE calls
\* An operation with what came of it: "failed" when it returned an error,
\* "found" / "free" for the listening check of the run script.
IssueResult(t, op, result) ==
  calls' = IF mainPc = "none"
           THEN [calls EXCEPT ![t] = @ \o << <<task[t].k, op>>, <<task[t].k, result>> >>]
           ELSE calls

\* Mutant: the first failure ends the loop (fail fast).
FailServiceAbortsLoop(tk, kind) ==
  [tk EXCEPT !.errs = Append(@, <<tk.k, kind>>), !.k = Len(tk.services) + 1, !.pc = "loop"]

\* Forward, lines 49-50 (and 36-37): the error is appended and the loop goes on.
\* An error is kept as the index of its service and the message Forward gives
\* it: "unknown" (not configured) or "tunnel" (startTunnel failed).
FailService(tk, kind) ==
  [tk EXCEPT !.errs = Append(@, <<tk.k, kind>>), !.k = @ + 1, !.pc = "loop"]

\* Forward, lines 51-55: the stop func is appended and the loop goes on.
SucceedService(tk, h) ==
  [tk EXCEPT !.stops = Append(@, h), !.k = @ + 1, !.pc = "loop"]

\* Mutant: with any error the successful stop funcs are not returned.
AggregateDropsHandles(tk) ==
  IF Len(tk.errs) > 0
  THEN [handles |-> << >>, err |-> TRUE,
        failed |-> Len(tk.errs), total |-> Len(tk.services), causes |-> tk.errs]
  ELSE [handles |-> tk.stops, err |-> FALSE, failed |-> 0, total |-> 0, causes |-> << >>]

\* Forward, lines 58-69: what the call returns after the loop: the stop
\* funcs, and with any error the aggregated error "(failed/total): causes".
Aggregate(tk) ==
  IF Len(tk.errs) > 0
  THEN [handles |-> tk.stops, err |-> TRUE,
        failed |-> Len(tk.errs), total |-> Len(tk.services), causes |-> tk.errs]
  ELSE [handles |-> tk.stops, err |-> FALSE, failed |-> 0, total |-> 0, causes |-> << >>]

\* Forward, lines 17, 20, 30: return nil, err.
EarlyError == [handles |-> << >>, err |-> TRUE, failed |-> 0, total |-> 0, causes |-> << >>]

\* Forward returns: its locals (errs, successfulStopFuncs, the loop variable)
\* are gone, the caller holds the result.
Return(tk, result) ==
  [tk EXCEPT !.pc = "returned", !.ret = result, !.errs = << >>, !.stops = << >>, !.k = 1]

\* Mutant: the error of InitClients is ignored.
InitClientsFailsOpen(tk, ok) == [tk EXCEPT !.pc = "loop"]

\* Forward, lines 28-31: an error of InitClients ends the call.
AfterInitClients(tk, ok) ==
  IF ok THEN [tk EXCEPT !.pc = "loop"] ELSE Return(tk, EarlyError)

\* Mutant: a service that is not configured is skipped without an error.
UnknownServiceSkipped(tk) == [tk EXCEPT !.k = @ + 1]

\* Forward, lines 35-38: a service that is not configured is an error of
\* its own and the loop continues.
UnknownService(tk) == FailService(tk, "unknown")

\* ------------------------------------------------------------ the init script
\* forward.go lines 91-106: socat is needed; without a package manager the
\* script exits 1.  Under set -e a failing install ends the script, but a
\* failing "apt-get update" of "apt-get update && apt-get install" does not
\* (it is not the last command of the AND list): the script goes on without
\* the tool.  Each result is <<script goes on, tool installed>>.
SocatStep(e) ==
  IF e.socat THEN {<<TRUE, TRUE>>}
  ELSE IF e.pkg THEN {<<TRUE, TRUE>>, <<TRUE, FALSE>>, <<FALSE, FALSE>>}
  ELSE {<<FALSE, FALSE>>}

\* forward.go lines 108-122: lsof is optional; without a package manager the
\* script warns and goes on.
LsofStep(e) ==
  IF e.lsof THEN {<<TRUE, TRUE>>}
  ELSE IF e.pkg THEN {<<TRUE, TRUE>>, <<TRUE, FALSE>>, <<FALSE, FALSE>>}
  ELSE {<<TRUE, FALSE>>}

\* forward.go lines 87-140: the runs of the init script in pod environment e.
InitScript(e) ==
  { [ok  |-> s[1] /\ l[1],
     pod |-> [e EXCEPT !.socat = s[2], !.lsof = IF s[1] THEN l[2] ELSE e.lsof]] :
      s \in SocatStep(e), l \in LsofStep(e) }

\* forward.go lines 124-138: the init script that got that far writes
\* /tmp/run_socat_PORT.sh.
WriteRunScript(e, port) == [e EXCEPT !.scripts = @ \cup {port}]

\* forward.go line 130: the condition of the generated run_socat script.
AlreadyListening(e, port) == e.lsof /\ port \in e.listening

\* forward.go line 134: nohup socat TCP-LISTEN:port ... >/tmp/socat_PORT.log &
\* The log is created by the redirection; a relay binds the port when socat
\* exists and nothing listens there yet.
LaunchRelay(e, port) ==
  [e EXCEPT !.listening = IF e.socat THEN @ \cup {port} ELSE @, !.logs = @ \cup {port}]

\* Mutant: stopping a tunnel also ends the relays in the pod.
StopKillsRelays(e) == [e EXCEPT !.listening = {}]

\* cluster.go line 185 / 187: close(stopChannel) is all a stop does: nothing
\* is sent to the pod.
PodAfterStop(e) == e

\* Mutant: the stop channel is left open.
CloseStopForgotten(h) == fw' = fw /\ proc' = proc /\ pod' = pod

\* cluster.go line 185 / 187: close(stopChannel); closing a closed channel panics.
CloseStop(h) ==
  /\ IF fw[h].stop = "open"
     THEN fw' = [fw EXCEPT ![h].stop = "closed"] /\ proc' = proc
     ELSE fw' = fw /\ proc' = "panicked"
  /\ pod' = PodAfterStop(pod)

\* ------------------------------------------------------- Forward, startTunnel
\* InitClients, cluster.go line 55: clientMap[ctx] = clientset.
RegistryInsert(m, ctx) == m \cup {ctx}

\* Forward, lines 15-31: the configuration checks and InitClients for the
\* one context of the site (here in one step, the lock included).
ForwardEnter(t) ==
  /\ Alive /\ task[t].pc = "enter"
  /\ IF task[t].site \notin DOMAIN Cfg \/ SiteOf(t).KubeContext = ""
     THEN /\ task' = [task EXCEPT ![t] = Return(@, EarlyError)]
          /\ UNCHANGED << clientMap, writes >>
     ELSE \E ok \in BOOLEAN :
            /\ clientMap' = IF ok THEN RegistryInsert(clientMap, SiteOf(t).KubeContext)
                                  ELSE clientMap
            /\ writes' = IF ok THEN [writes EXCEPT ![SiteOf(t).KubeContext] = @ + 1]
                               ELSE writes
            /\ task' = [task EXCEPT ![t] = AfterInitClients(@, ok)]
  /\ UNCHANGED << regVars, mainVars, proc, pod, launches, fw, established, calls, stopCalls >>

\* Forward, lines 33-48 and 58-69: the loop header, the service lookup, the
\* call of startTunnel, and after the last service the aggregated return.
ServiceLoop(t) ==
  /\ Alive /\ task[t].pc = "loop"
  /\ IF task[t].k > Len(task[t].services)
     THEN /\ task' = [task EXCEPT ![t] = Return(@, Aggregate(@))]
          /\ UNCHANGED calls
     ELSE IF task[t].services[task[t].k] \notin DOMAIN SiteOf(t).Services
     THEN /\ task' = [task EXCEPT ![t] = UnknownService(@)]
          /\ UNCHANGED calls
     ELSE /\ task' = [task EXCEPT ![t].pc = "locate"]
          /\ Issue(t, "tunnel")
  /\ UNCHANGED << regVars, writes, mainVars, proc, clientMap, pod, launches, fw, established, stopCalls >>

\* Mutant: startTunnel goes on after an error.
StepIgnoresError(tk, ok, next) == [tk EXCEPT !.pc = next]

\* startTunnel, lines 80-82, 145-147, 161-163, 175-177: if err != nil the
\* bootstrap ends with the error; otherwise it goes on with the next step.
StepDone(tk, ok, next) ==
  IF ok THEN [tk EXCEPT !.pc = next] ELSE FailService(tk, "tunnel")

\* startTunnel, lines 79-83, GetPodNameByLabel (cluster.go 74-89): the client
\* must be registered; the listing fails, is empty, or names the pod.
LocatePod(t) ==
  /\ Alive /\ task[t].pc = "locate"
  /\ \E ok \in BOOLEAN :
       /\ ok => SiteOf(t).KubeContext \in clientMap
       /\ IF ok THEN Issue(t, "locate") ELSE IssueResult(t, "locate", "failed")
       /\ task' = [task EXCEPT ![t] = StepDone(@, ok, "init")]
  /\ UNCHANGED << regVars, writes, mainVars, proc, clientMap, pod, launches, fw, established, stopCalls >>

\* startTunnel, lines 142-155: the init script runs in the pod, or the exec
\* transport fails.
ExecInit(t) ==
  /\ Alive /\ task[t].pc = "init"
  /\ \E r \in InitScript(pod) \cup {[ok |-> FALSE, pod |-> pod]} :
       /\ pod' = IF r.ok THEN WriteRunScript(r.pod, ServiceOf(t).DefaultPort) ELSE r.pod
       /\ IF r.ok THEN Issue(t, "init") ELSE IssueResult(t, "init", "failed")
       /\ task' = [task EXCEPT ![t] = StepDone(@, r.ok, "run")]
  /\ UNCHANGED << regVars, writes, mainVars, proc, clientMap, launches, fw, established, stopCalls >>

\* Mutant: the run script launches the relay whatever the check finds.
AlwaysLaunch(e, port) == "launch"

\* forward.go lines 130-136: if the check finds a listener the script only
\* reports it; else it launches the relay.
RunScriptBranch(e, port) == IF AlreadyListening(e, port) THEN "pf" ELSE "launch"

\* startTunnel, lines 157-163: run_socat_PORT.sh starts and evaluates its
\* listening check (script line 130), or the exec transport fails.
ExecRun(t) ==
  /\ Alive /\ task[t].pc = "run"
  /\ \E ok \in BOOLEAN :
       /\ IssueResult(t, "run",
                      IF ~ok THEN "failed"
                      ELSE IF AlreadyListening(pod, ServiceOf(t).DefaultPort) THEN "found"
                      ELSE "free")
       /\ task' = [task EXCEPT ![t] =
                     StepDone(@, ok, RunScriptBranch(pod, ServiceOf(t).DefaultPort))]
  /\ UNCHANGED << regVars, writes, mainVars, proc, clientMap, pod, launches, fw, established, stopCalls >>

\* The else branch of run_socat_PORT.sh (script lines 133-135): the relay is
\* launched in the background and the script ends with status 0.
RelayLaunch(t) ==
  /\ Alive /\ task[t].pc = "launch"
  /\ Issue(t, "launch")
  /\ launches' = [launches EXCEPT ![ServiceOf(t).DefaultPort] = @ + 1]
  /\ pod' = LaunchRelay(pod, ServiceOf(t).DefaultPort)
  /\ task' = [task EXCEPT ![t].pc = "pf"]
  /\ UNCHANGED << regVars, writes, mainVars, proc, clientMap, fw, established, stopCalls >>

\* PortForward, cluster.go lines 136-180: an early error, or the channels are
\* made and the forwarder goroutine is started.
PortForwardStart(t) ==
  /\ Alive /\ task[t].pc = "pf"
  /\ \E ok \in BOOLEAN :
       /\ ok => SiteOf(t).KubeContext \in clientMap
       /\ IF ok THEN Issue(t, "forward") ELSE IssueResult(t, "forward", "failed")
       /\ fw' = IF ok THEN [fw EXCEPT ![HandleOf(t)] =
                                 [st |-> "running", ready |-> FALSE, stop |-> "open"]]
                      ELSE fw
       /\ task' = [task EXCEPT ![t] = StepDone(@, ok, "select")]
  /\ UNCHANGED << regVars, writes, mainVars, proc, clientMap, pod, launches, established, stopCalls >>

\* Mutant: a forwarder that fails closes its stop channel as it exits.
ForwarderFailedClosesStop(f) == [f EXCEPT !.st = "exited", !.stop = "closed"]

\* cluster.go lines 175-180: ForwardPorts returned an error; the goroutine
\* prints it and ends, and touches neither channel.
ForwarderFailed(f) == [f EXCEPT !.st = "exited"]

\* cluster.go lines 175-180, fw.ForwardPorts(): the forwarder binds the local
\* port and signals readiness, or fails (dial, or the port is taken) and exits.
ForwardPorts(h) ==
  /\ Alive /\ fw[h].st = "running"
  /\ \/ /\ LocalPortOf(h) \notin BoundPorts
        /\ fw' = [fw EXCEPT ![h].st = "listening", ![h].ready = TRUE]
     \/ fw' = [fw EXCEPT ![h] = ForwarderFailed(@)]
  /\ UNCHANGED << regVars, writes, mainVars, proc, task, clientMap, pod, launches, established, calls, stopCalls >>

\* fw.ForwardPorts() after readiness: a closed stop channel ends the
\* forwarder, which releases its listener.
ForwardStopped(h) ==
  /\ Alive /\ fw[h].st = "listening" /\ fw[h].stop = "closed"
  /\ fw' = [fw EXCEPT ![h].st = "exited"]
  /\ UNCHANGED << regVars, writes, mainVars, proc, task, clientMap, pod, launches, established, calls, stopCalls >>

\* Mutant: the stop func is returned without waiting for readiness.
ReadyNotAwaited(h) == TRUE

\* PortForward, cluster.go line 184: case <-readyChannel.
ReadyFired(h) == fw[h].ready

\* PortForward, cluster.go lines 184-185, and Forward lines 51-55.
PortForwardReady(t) ==
  /\ Alive /\ task[t].pc = "select"
  /\ ReadyFired(HandleOf(t))
  /\ task' = [task EXCEPT ![t] = SucceedService(@, HandleOf(t))]
  /\ established' = established \cup {HandleOf(t)}
  /\ UNCHANGED << regVars, writes, mainVars, proc, clientMap, pod, launches, fw, calls, stopCalls >>

\* PortForward, cluster.go lines 186-188, and Forward lines 49-50.
PortForwardTimeout(t) ==
  /\ Alive /\ task[t].pc = "select"
  /\ CloseStop(HandleOf(t))
  /\ task' = [task EXCEPT ![t] = FailService(@, "tunnel")]
  /\ UNCHANGED << regVars, writes, mainVars, clientMap, launches, established, calls, stopCalls >>

\* The caller of Forward invokes a stop func it was handed (cluster.go line 185).
CallerStop(h) ==
  /\ Alive /\ mainPc = "none"
  /\ task[h[1]].pc = "returned"
  /\ \E n \in DOMAIN task[h[1]].ret.handles : task[h[1]].ret.handles[n] = h
  /\ stopCalls[h] < MaxStopCalls
  /\ stopCalls' = [stopCalls EXCEPT ![h] = @ + 1]
  /\ CloseStop(h)
  /\ UNCHANGED << regVars, writes, mainVars, task, clientMap, launches, established, calls >>

NextForward ==
  \/ \E t \in Tasks : ForwardEnter(t)
  \/ \E t \in Tasks : ServiceLoop(t)
  \/ \E t \in Tasks : LocatePod(t)
  \/ \E t \in Tasks : ExecInit(t)
  \/ \E t \in Tasks : ExecRun(t)
  \/ \E t \in Tasks : RelayLaunch(t)
  \/ \E t \in Tasks : PortForwardStart(t)
  \/ \E h \in Handles : ForwardPorts(h)
  \/ \E h \in Handles : ForwardStopped(h)
  \/ \E t \in Tasks : PortForwardReady(t)
  \/ \E t \in Tasks : PortForwardTimeout(t)
  \/ \E h \in Handles : CallerStop(h)

SpecForward == InitForward /\ [][NextForward]_vars

\* One call of Forward whose caller keeps the returned stop handles without
\* invoking them: the bootstrap alone.
NextStartTunnel ==
  \/ \E t \in Tasks : ForwardEnter(t)
  \/ \E t \in Tasks : ServiceLoop(t)
  \/ \E t \in Tasks : LocatePod(t)
  \/ \E t \in Tasks : ExecInit(t)
  \/ \E t \in Tasks : ExecRun(t)
  \/ \E t \in Tasks : RelayLaunch(t)
  \/ \E t \in Tasks : PortForwardStart(t)
  \/ \E h \in Handles : ForwardPorts(h)
  \/ \E h \in Handles : ForwardStopped(h)
  \/ \E t \in Tasks : PortForwardReady(t)
  \/ \E t \in Tasks : PortForwardTimeout(t)

SpecStartTunnel == InitForward /\ [][NextStartTunnel]_vars

\* The forwarder goroutines are scheduled, and their dial and their wait on
\* the stop channel come back: while some forwarder can take a step, one does.
FairForwarders ==
  WF_vars(\E h \in Handles : ForwardPorts(h) \/ ForwardStopped(h))

\* One call of Forward against a prepared pod (the port-forward does not
\* depend on how the pod was prepared), with fair forwarders.
InitForwardPrepared == InitForward /\ pod \in SessionPods

SpecForwardFair == InitForwardPrepared /\ [][NextForward]_vars /\ FairForwarders

\* ------------------------------------------------------------------ run
\* run, lines 145-158: the services of a site: the --services flag, or
\* every service of the site in map order; none when the site has none.
ActualServices(siteName) ==
  IF Len(servicesToUse) > 0 THEN {servicesToUse}
  ELSE Perms(DOMAIN Cfg[siteName].Services) \ {<< >>}

\* Mutant: the site's stop funcs replace the shared slice.
MergeOverwrites(all, stopFuncsForSite) ==
  IF Len(stopFuncsForSite) > 0 THEN stopFuncsForSite ELSE all

\* run, lines 170-173: the site's stop funcs are appended to the shared slice.
MergeStopFuncs(all, stopFuncsForSite) ==
  IF Len(stopFuncsForSite) > 0 THEN all \o stopFuncsForSite ELSE all

\* run, lines 134-183: one iteration of the site loop: an unknown site or a
\* site without services is skipped, otherwise wg.Add(1) and the goroutine
\* is started; after the last site run goes on to wg.Wait().
SiteLoop ==
  /\ Alive /\ mainPc = "loop"
  /\ IF i > Len(sitesToUse)
     THEN /\ mainPc' = "wait"
          /\ UNCHANGED << i, wg, task >>
     ELSE /\ i' = i + 1
          /\ mainPc' = mainPc
          /\ IF sitesToUse[i] \notin DOMAIN Cfg \/ ActualServices(sitesToUse[i]) = {}
             THEN UNCHANGED << wg, task >>
             ELSE /\ wg' = wg + 1
                  /\ \E svcs \in ActualServices(sitesToUse[i]) :
                       task' = [task EXCEPT ![i] =
                                  [IdleTask EXCEPT !.pc = "enter", !.site = sitesToUse[i],
                                                   !.services = svcs]]
  /\ UNCHANGED << regVars, writes, sitesToUse, servicesToUse, j, mu, allActiveStopFuncs, signalChan,
                  proc, clientMap, pod, launches, fw, established, calls, stopCalls >>

\* The goroutine, line 169: mu.Lock() after Forward returned.
TaskLock(t) ==
  /\ Alive /\ mainPc # "none"
  /\ task[t].pc = "returned"
  /\ mu = << >>
  /\ mu' = <<"task", t>>
  /\ task' = [task EXCEPT ![t].pc = "merge"]
  /\ UNCHANGED << regVars, writes, sitesToUse, servicesToUse, mainPc, i, j, wg, allActiveStopFuncs, signalChan,
                  proc, clientMap, pod, launches, fw, established, calls, stopCalls >>

\* The goroutine, lines 170-182: the append, mu.Unlock(), the error is only
\* logged, and the deferred wg.Done().
TaskMerge(t) ==
  /\ Alive /\ task[t].pc = "merge"
  /\ allActiveStopFuncs' = MergeStopFuncs(allActiveStopFuncs, task[t].ret.handles)
  /\ mu' = << >>
  /\ wg' = wg - 1
  /\ task' = [task EXCEPT ![t].pc = "done"]
  /\ UNCHANGED << regVars, writes, sitesToUse, servicesToUse, mainPc, i, j, signalChan,
                  proc, clientMap, pod, launches, fw, established, calls, stopCalls >>

\* Mutant: run does not wait for the goroutines.
BarrierNotAwaited == TRUE

\* run, line 185: wg.Wait() returns when the counter is zero.
BarrierOpen == wg = 0

\* run, line 185: wg.Wait() returns once every goroutine is done.
WgWait ==
  /\ Alive /\ mainPc = "wait"
  /\ BarrierOpen
  /\ mainPc' = "count"
  /\ UNCHANGED << regVars, writes, sitesToUse, servicesToUse, i, j, wg, mu, allActiveStopFuncs, signalChan,
                  proc, task, clientMap, pod, launches, fw, established, calls, stopCalls >>

\* Mutant: run blocks on the signal even with no tunnel.
NeverNoTunnels == FALSE

\* run, lines 188-192: activeTunnelCount == 0.
NoTunnels == Len(allActiveStopFuncs) = 0

\* run, lines 188-211: with no tunnel run returns; otherwise the summary is
\* printed, signal.Notify registers signalChan and run blocks on it.
CountTunnels ==
  /\ Alive /\ mainPc = "count"
  /\ mu = << >>
  /\ IF NoTunnels
     THEN mainPc' = "done" /\ proc' = "exited"
     ELSE mainPc' = "blocked" /\ proc' = proc
  /\ UNCHANGED << regVars, writes, sitesToUse, servicesToUse, i, j, wg, mu, allActiveStopFuncs, signalChan,
                  task, clientMap, pod, launches, fw, established, calls, stopCalls >>

\* signal.Notify has registered signalChan from line 211 on.
Notified == mainPc \in {"blocked", "stopping"}

\* The operating system delivers SIGINT or SIGTERM.  Registered, it is put
\* into signalChan (capacity 1, dropped when full); before that the
\* default disposition ends the process at once: its goroutines, channels
\* and memory are gone, only the pod and the histories remain.
Signal ==
  /\ Alive /\ mainPc # "none"
  /\ IF Notified
     THEN /\ signalChan = 0
          /\ signalChan' = 1
          /\ proc' = proc
          /\ UNCHANGED << mainPc, i, j, wg, mu, allActiveStopFuncs, task, clientMap, fw >>
     ELSE /\ proc' = "killed"
          /\ mainPc' = "done"
          /\ i' = 1 /\ j' = 1 /\ wg' = 0 /\ mu' = << >>
          /\ allActiveStopFuncs' = << >>
          /\ task' = [t \in Tasks |-> IdleTask]
          /\ clientMap' = {}
          /\ fw' = [h \in Handles |-> NoForward]
          /\ UNCHANGED signalChan
  /\ UNCHANGED << regVars, writes, sitesToUse, servicesToUse, pod, launches, established, calls, stopCalls >>

\* run, lines 214-219: the signal is received and mu is locked.
ReceiveSignal ==
  /\ Alive /\ mainPc = "blocked"
  /\ signalChan > 0
  /\ mu = << >>
  /\ signalChan' = signalChan - 1
  /\ mu' = <<"main">>
  /\ mainPc' = "stopping"
  /\ j' = 1
  /\ UNCHANGED << regVars, writes, sitesToUse, servicesToUse, i, wg, allActiveStopFuncs,
                  proc, task, clientMap, pod, launches, fw, established, calls, stopCalls >>

\* Mutant: the shutdown loop may end before the last stop func.
AllStoppedButLast == j >= Len(allActiveStopFuncs)

\* run, line 220: the range loop over allActiveStopFuncs has ended.
AllStopped == j > Len(allActiveStopFuncs)

\* run, lines 220-225: one iteration of the shutdown loop invokes stopFunc.
StopTunnel ==
  /\ Alive /\ mainPc = "stopping"
  /\ j <= Len(allActiveStopFuncs)
  /\ stopCalls' = [stopCalls EXCEPT ![allActiveStopFuncs[j]] = @ + 1]
  /\ CloseStop(allActiveStopFuncs[j])
  /\ j' = j + 1
  /\ UNCHANGED << regVars, writes, sitesToUse, servicesToUse, mainPc, i, wg, mu, allActiveStopFuncs, signalChan,
                  task, clientMap, launches, established, calls >>

\* run, lines 226-229: mu.Unlock() and run returns: the process exits.
Shutdown ==
  /\ Alive /\ mainPc = "stopping"
  /\ AllStopped
  /\ mu' = << >>
  /\ mainPc' = "done"
  /\ proc' = "exited"
  /\ UNCHANGED << regVars, writes, sitesToUse, servicesToUse, i, j, wg, allActiveStopFuncs, signalChan,
                  task, clientMap, pod, launches, fw, established, calls, stopCalls >>

Next ==
  \/ SiteLoop
  \/ \E t \in Tasks : ForwardEnter(t)
  \/ \E t \in Tasks : ServiceLoop(t)
  \/ \E t \in Tasks : LocatePod(t)
  \/ \E t \in Tasks : ExecInit(t)
  \/ \E t \in Tasks : ExecRun(t)
  \/ \E t \in Tasks : RelayLaunch(t)
  \/ \E t \in Tasks : PortForwardStart(t)
  \/ \E h \in Handles : ForwardPorts(h)
  \/ \E h \in Handles : ForwardStopped(h)
  \/ \E t \in Tasks : PortForwardReady(t)
  \/ \E t \in Tasks : PortForwardTimeout(t)
  \/ \E t \in Tasks : TaskLock(t)
  \/ \E t \in Tasks : TaskMerge(t)
  \/ WgWait
  \/ CountTunnels
  \/ Signal
  \/ ReceiveSignal
  \/ StopTunnel
  \/ Shutdown

Spec == Init /\ [][Next]_vars

\* ------------------------------------------------------- the client registry
\* What a registry goroutine is started with: InitClients(contexts) with any
\* list of contexts, or GetPodNameByLabel(ctx, ...), which calls GetClient and
\* then lists the pods with the client.
InitCalls ==
  {[IdleCaller EXCEPT !.op = "init", !.pc = "build", !.ctxs = cs] :
     cs \in SeqsUpTo(Contexts, MaxContexts)}
GetCalls ==
  {[IdleCaller EXCEPT !.op = "get", !.pc = "rlock", !.ctxs = <<c>>] : c \in Contexts}

InitRegistry ==
  /\ InitShared
  /\ pod \in SessionPods
  /\ servicesToUse = << >>
  /\ sitesToUse = << >>
  /\ mainPc = "none"
  /\ task = [t \in Tasks |-> IdleTask]
  /\ rp \in [Callers -> InitCalls \cup GetCalls]

\* Mutant: a context whose client cannot be built is skipped.
BuildSkipsFailed(r, ok) ==
  IF ok THEN [r EXCEPT !.pc = "lock"] ELSE [r EXCEPT !.n = @ + 1]

\* InitClients, lines 43-52: an error of getKubeRestConfig or NewForConfig
\* ends the call with an error that names the context.
BuildResult(r, ok) ==
  IF ok THEN [r EXCEPT !.pc = "lock"] ELSE [r EXCEPT !.pc = "done", !.err = r.ctxs[r.n]]

\* InitClients, lines 42-52 and 59: the loop header and, for the next
\* context, the kube config and the clientset (file and network access).
ClientBuild(p) ==
  /\ Alive /\ rp[p].pc = "build"
  /\ IF rp[p].n > Len(rp[p].ctxs)
     THEN rp' = [rp EXCEPT ![p].pc = "done"]
     ELSE \E ok \in BOOLEAN : rp' = [rp EXCEPT ![p] = BuildResult(@, ok)]
  /\ UNCHANGED << mutex, writes, mainVars, proc, task, clientMap, pod, launches, fw,
                  established, calls, stopCalls >>

\* InitClients, line 54: mutex.Lock().
ClientLock(p) ==
  /\ Alive /\ rp[p].pc = "lock"
  /\ mutex.w = 0 /\ mutex.r = {}
  /\ mutex' = [mutex EXCEPT !.w = p]
  /\ rp' = [rp EXCEPT ![p].pc = "insert"]
  /\ UNCHANGED << writes, mainVars, proc, task, clientMap, pod, launches, fw,
                  established, calls, stopCalls >>

\* Mutant: the lock is kept until InitClients returns.
HeldAfterInsert(p) == [mutex EXCEPT !.w = IF rp[p].n >= Len(rp[p].ctxs) THEN 0 ELSE p]

\* InitClients, line 56: mutex.Unlock().
Unlocked(p) == [mutex EXCEPT !.w = 0]

\* InitClients, lines 55-56: the assignment clientMap[ctx] = clientset and
\* mutex.Unlock(); the loop goes on with the next context.
ClientInsert(p) ==
  /\ Alive /\ rp[p].pc = "insert"
  /\ mutex.w = p
  /\ clientMap' = RegistryInsert(clientMap, rp[p].ctxs[rp[p].n])
  /\ writes' = [writes EXCEPT ![rp[p].ctxs[rp[p].n]] = @ + 1]
  /\ mutex' = Unlocked(p)
  /\ rp' = [rp EXCEPT ![p].done = Append(@, rp[p].ctxs[rp[p].n]),
                       ![p].n = @ + 1, ![p].pc = "build"]
  /\ UNCHANGED << mainVars, proc, task, pod, launches, fw, established, calls, stopCalls >>

\* GetClient, line 64: mutex.RLock().
GetRLock(p) ==
  /\ Alive /\ rp[p].pc = "rlock"
  /\ mutex.w = 0
  /\ mutex' = [mutex EXCEPT !.r = @ \cup {p}]
  /\ rp' = [rp EXCEPT ![p].pc = "read"]
  /\ UNCHANGED << writes, mainVars, proc, task, clientMap, pod, launches, fw,
                  established, calls, stopCalls >>

\* GetClient, lines 65-71: the lookup, and the deferred mutex.RUnlock() as
\* GetClient returns the client or the error "not initialized".
GetRead(p) ==
  /\ Alive /\ rp[p].pc = "read"
  /\ mutex' = [mutex EXCEPT !.r = @ \ {p}]
  /\ rp' = [rp EXCEPT ![p].got = IF rp[p].ctxs[1] \in clientMap THEN "ok" ELSE "missing",
                       ![p].seen = writes[rp[p].ctxs[1]],
                       ![p].pc = IF rp[p].ctxs[1] \in clientMap THEN "use" ELSE "done"]
  /\ UNCHANGED << writes, mainVars, proc, task, clientMap, pod, launches, fw,
                  established, calls, stopCalls >>

\* GetPodNameByLabel, lines 79-88: the pods are listed with the client.
ClientUse(p) ==
  /\ Alive /\ rp[p].pc = "use"
  /\ rp' = [rp EXCEPT ![p].pc = "done"]
  /\ UNCHANGED << mutex, writes, mainVars, proc, task, clientMap, pod, launches, fw,
                  established, calls, stopCalls >>

NextRegistry ==
  \/ \E p \in Callers : ClientBuild(p)
  \/ \E p \in Callers : ClientLock(p)
  \/ \E p \in Callers : ClientInsert(p)
  \/ \E p \in Callers : GetRLock(p)
  \/ \E p \in Callers : GetRead(p)
  \/ \E p \in Callers : ClientUse(p)

SpecRegistry == InitRegistry /\ [][NextRegistry]_vars

\* A session of run, or the registry goroutines.
InitLocks == Init \/ InitRegistry
NextLocks == Next \/ NextRegistry
SpecLocks == InitLocks /\ [][NextLocks]_vars

\* ------------------------------------------------------------------ claims
Count(seq, x) == Cardinality({n \in DOMAIN seq : seq[n] = x})
Range(seq) == {seq[n] : n \in DOMAIN seq}

\* Forward has returned to its caller.
Returned(t) == task[t].pc \in {"returned", "merge", "done"}
\* Forward's site is configured and its InitClients succeeded (SpecForward
\* starts with an empty registry).
InitOk(t) ==
  /\ task[t].site \in DOMAIN Cfg
  /\ SiteOf(t).KubeContext # ""
  /\ SiteOf(t).KubeContext \in clientMap
\* InitClients failed inside Forward.
InitFailed(t) ==
  /\ task[t].site \in DOMAIN Cfg
  /\ SiteOf(t).KubeContext # ""
  /\ SiteOf(t).KubeContext \notin clientMap
\* The tunnels of task t that became established.
EstablishedOf(t) == {h \in established : h[1] = t}
Configured(t, k) == task[t].services[k] \in DOMAIN SiteOf(t).Services

\* C1: a Forward call whose client initialisation succeeded, with N requested
\* services of which K did not get their tunnel established, returns exactly
\* the N-K stop handles of the established tunnels, one each, and an error
\* exactly when K > 0, which then reports K failures out of N.
C1_PartialSuccess ==
  \A t \in Tasks :
    (Returned(t) /\ InitOk(t)) =>
      LET N == Len(task[t].services)
          K == N - Cardinality(EstablishedOf(t))
          r == task[t].ret
      IN /\ Len(r.handles) = N - K
         /\ Range(r.handles) = EstablishedOf(t)
         /\ r.err <=> (K > 0)
         /\ r.err => (r.failed = K /\ r.total = N)

C1_Witness ==
  \E t \in Tasks :
    /\ Returned(t) /\ InitOk(t)
    /\ Len(task[t].services) = 2
    /\ Cardinality(EstablishedOf(t)) = 1
    /\ task[t].ret.err /\ Len(task[t].ret.handles) = 1

\* C2: invoking a returned stop handle a second time does not panic: the
\* process is still running after any number of invocations.
C2_SecondStopIsNoOp ==
  \A h \in Handles : stopCalls[h] >= 2 => proc = "running"

\* C3: when InitClients fails inside Forward, Forward returns an error and no
\* stop handle, and nothing is attempted for any requested service: no
\* startTunnel, pod lookup, remote command or port-forward.
C3_InitFailureAttemptsNothing ==
  \A t \in Tasks :
    (task[t].pc # "enter" /\ InitFailed(t)) =>
      /\ task[t].pc = "returned"
      /\ task[t].ret.err /\ task[t].ret.handles = << >>
      /\ calls[t] = << >>
      /\ \A h \in Handles : h[1] = t => fw[h].st = "none"

C3_Witness ==
  \E t \in Tasks :
    /\ task[t].pc = "returned" /\ InitFailed(t)
    /\ \E k \in DOMAIN task[t].services : Configured(t, k)

\* C4: stop handles are invoked only after the signal was received; when the
\* session exits, every stop handle of the shared collection has been invoked
\* exactly once, and none is ever invoked twice.
C4_StopEachOnceThenExit ==
  /\ \A h \in Handles : stopCalls[h] <= 1
  /\ mainPc \in {"loop", "wait", "count", "blocked"} => \A h \in Handles : stopCalls[h] = 0
  /\ proc = "exited" =>
       \A n \in DOMAIN allActiveStopFuncs : stopCalls[allActiveStopFuncs[n]] = 1

C4_Witness ==
  /\ proc = "exited"
  /\ Len(allActiveStopFuncs) >= 2
  /\ \A n \in DOMAIN allActiveStopFuncs : stopCalls[allActiveStopFuncs[n]] = 1

\* C5: once the process has ended, by exit or by a signal at any point of
\* the session, the stop handle of every tunnel that was established has
\* been invoked.
C5_SignalStopsEveryTunnel ==
  proc \in {"exited", "killed"} => \A h \in established : stopCalls[h] >= 1

\* C6: with no tunnel established the session never waits for a signal and
\* never invokes a stop handle: after the barrier the collection is empty,
\* so that run returns at the tunnel count, and a run that has ended by
\* itself has exited.
C6_NoTunnelNoWait ==
  established = {} =>
    /\ mainPc \notin {"blocked", "stopping"}
    /\ \A h \in Handles : stopCalls[h] = 0
    /\ signalChan = 0
    /\ mainPc = "count" => Len(allActiveStopFuncs) = 0
    /\ (mainPc = "done" /\ proc # "killed") => proc = "exited"

C6_Witness ==
  /\ established = {}
  /\ proc = "exited"
  /\ \E t \in Tasks : task[t].pc = "done" /\ task[t].ret.err

\* C7: once the barrier is passed the shared collection holds exactly the
\* stop handles the site-level Forward calls returned, each once, whatever
\* error a site returned with them.
C7_CollectionIsAllReturned ==
  (Alive /\ mainPc \in {"count", "blocked", "stopping"}) =>
    /\ \A t \in Tasks : task[t].pc \in {"none", "done"}
    /\ \A h \in Handles :
         /\ Count(allActiveStopFuncs, h) = Count(task[h[1]].ret.handles, h)
         /\ Count(allActiveStopFuncs, h) = IF h \in established THEN 1 ELSE 0

C7_Witness ==
  /\ Alive /\ mainPc = "blocked"
  /\ \E t, u \in Tasks :
       /\ t # u
       /\ task[t].ret.err /\ Len(task[t].ret.handles) = 1
       /\ Len(task[u].ret.handles) = 1
       /\ Len(allActiveStopFuncs) = 2

\* C8: in a Forward call whose client initialisation succeeded, startTunnel
\* is called exactly once for every requested service that is configured,
\* whatever became of the others, and a tunnel that was established is not
\* stopped by Forward and is among the returned handles.
C8_EveryServiceAttemptedOnce ==
  \A t \in Tasks :
    /\ (Returned(t) /\ InitOk(t)) =>
         \A k \in DOMAIN task[t].services :
           Count(calls[t], <<k, "tunnel">>) = IF Configured(t, k) THEN 1 ELSE 0
    /\ \A h \in EstablishedOf(t) :
         /\ stopCalls[h] = 0 => (fw[h].stop = "open" /\ fw[h].st = "listening")
         /\ Returned(t) => h \in Range(task[t].ret.handles)

C8_Witness ==
  \E t \in Tasks :
    /\ Returned(t) /\ InitOk(t)
    /\ Len(task[t].services) = 2
    /\ Configured(t, 1) /\ Configured(t, 2)
    /\ EstablishedOf(t) = {<<t, 1>>}
    /\ Count(calls[t], <<2, "tunnel">>) = 1
    /\ fw[<<t, 1>>].st = "listening"

\* C9: a requested service that is not configured is exactly one failure of
\* the aggregated error, nothing is issued for it (no pod lookup, remote
\* command or port-forward), and the configured services of the request are
\* still bootstrapped: {a, missing} with a succeeding returns 1 handle and
\* an error of 1 failure out of 2.
C9_UnknownServiceIsOneFailure ==
  \A t \in Tasks :
    (Returned(t) /\ InitOk(t)) =>
      /\ \A k \in DOMAIN task[t].services :
           IF Configured(t, k)
           THEN Count(calls[t], <<k, "tunnel">>) = 1
           ELSE /\ Count(task[t].ret.causes, <<k, "unknown">>) = 1
                /\ Count(task[t].ret.causes, <<k, "tunnel">>) = 0
                /\ \A c \in Range(calls[t]) : c[1] # k
                /\ fw[<<t, k>>].st = "none"
      /\ (task[t].site = "s1" /\ task[t].services = <<"a", "missing">>
            /\ <<t, 1>> \in established) =>
           /\ Len(task[t].ret.handles) = 1
           /\ task[t].ret.err /\ task[t].ret.failed = 1 /\ task[t].ret.total = 2

C9_Witness ==
  \E t \in Tasks :
    /\ Returned(t) /\ InitOk(t)
    /\ task[t].site = "s1" /\ task[t].services = <<"a", "missing">>
    /\ task[t].ret.handles = << <<t, 1>> >>
    /\ task[t].ret.causes = << <<2, "unknown">> >>

\* C10: a bootstrap run against a pod in which a relay already listens on
\* the remote port issues no further relay launch for that port.
C10_NoRelaunchWhenListening ==
  [][\A p \in RemotePorts : p \in pod.listening => launches'[p] = launches[p]]_vars

\* What the PortForward call of handle h gave startTunnel, as Forward keeps
\* it: a stop func, or an error.
GaveHandle(h) == h \in Range(task[h[1]].stops) \cup Range(task[h[1]].ret.handles)
GaveError(h) ==
  <<h[2], "tunnel">> \in Range(task[h[1]].errs) \cup Range(task[h[1]].ret.causes)
\* The background forwarder of h has been started.
Started(h) == fw[h].st # "none"
\* PortForward is inside its select for h.
Selecting(h) == task[h[1]].pc = "select" /\ task[h[1]].k = h[2]

\* C11: once its background forwarder is started, PortForward ends in one of
\* two ways and never both: it returns a stop handle and no error, and then
\* readiness has fired and PortForward left the stop channel open; or it
\* closes the stop channel and returns an error without a handle.  Until
\* then it has returned nothing and closed nothing.
C11_HandleXorTimeout ==
  \A h \in Handles :
    Started(h) =>
      /\ ~(GaveHandle(h) /\ GaveError(h))
      /\ Selecting(h) => (~GaveHandle(h) /\ ~GaveError(h) /\ fw[h].stop = "open")
      /\ ~Selecting(h) => (GaveHandle(h) \/ GaveError(h))
      /\ GaveHandle(h) =>
           (h \in established /\ fw[h].ready /\ (stopCalls[h] = 0 => fw[h].stop = "open"))
      /\ GaveError(h) =>
           (h \notin established /\ fw[h].stop = "closed" /\ stopCalls[h] = 0)

C11_Witness ==
  \E g, h \in Handles :
    /\ Started(g) /\ GaveHandle(g) /\ stopCalls[g] = 0
    /\ Started(h) /\ GaveError(h) /\ fw[h].stop = "closed"
    /\ task[h[1]].pc = "returned"

\* C12: in every interleaving of InitClients and GetClient calls, GetClient
\* of a context succeeds exactly when an InitClients call had completed the
\* insert for it; an InitClients call has inserted the contexts of its list
\* in order, and when it fails it returns an error naming the context it
\* failed on, the contexts before that one are registered, and it has
\* inserted neither that one nor a later one.
C12_RegistryLookup ==
  /\ clientMap = {c \in Contexts : writes[c] >= 1}
  /\ \A p \in Callers :
       /\ (rp[p].op = "get" /\ rp[p].got # "none") =>
            (rp[p].got = "ok" <=> rp[p].seen >= 1)
       /\ rp[p].op = "init" =>
            /\ Len(rp[p].done) <= Len(rp[p].ctxs)
            /\ rp[p].done = SubSeq(rp[p].ctxs, 1, Len(rp[p].done))
            /\ Range(rp[p].done) \subseteq clientMap
            /\ rp[p].err # "" =>
                 /\ rp[p].pc = "done"
                 /\ Len(rp[p].done) < Len(rp[p].ctxs)
                 /\ rp[p].err = rp[p].ctxs[Len(rp[p].done) + 1]
            /\ (rp[p].pc = "done" /\ rp[p].err = "") => rp[p].done = rp[p].ctxs

C12_Witness ==
  \E p, q \in Callers :
    /\ rp[p].op = "init" /\ rp[p].pc = "done"
    /\ Len(rp[p].ctxs) = 2 /\ rp[p].ctxs[1] # rp[p].ctxs[2]
    /\ rp[p].err = rp[p].ctxs[2] /\ rp[p].done = <<rp[p].ctxs[1]>>
    /\ rp[q].op = "get" /\ rp[q].pc = "done" /\ rp[q].got = "ok"
    /\ rp[q].ctxs[1] = rp[p].ctxs[1]

\* The operations the log of task t holds for its k-th service, in order.
OpsOf(t, k) == SelectSeq(calls[t], LAMBDA c : c[1] = k)
\* The port in the pod that the k-th service of task t is relayed to.
RemotePortOf(t, k) == SiteOf(t).Services[task[t].services[k]].DefaultPort

\* C13: a run of the relay start script whose listening check finds a
\* listener on the remote port does not issue the launch command; the
\* launch is issued only in a run whose check found none, at most once, and
\* these are all the launches the pod sees.
C13_LaunchOnlyAfterFreeCheck ==
  /\ \A t \in Tasks : \A n \in DOMAIN calls[t] :
       /\ calls[t][n][2] = "launch" =>
            (n > 1 /\ calls[t][n - 1] = <<calls[t][n][1], "free">>)
       /\ (calls[t][n][2] = "found" /\ n < Len(calls[t])) =>
            calls[t][n + 1] = <<calls[t][n][1], "forward">>
       /\ calls[t][n][2] \in {"found", "free"} =>
            (n > 1 /\ calls[t][n - 1] = <<calls[t][n][1], "run">>)
  /\ \A t \in Tasks : \A m \in DOMAIN calls[t] :
       calls[t][m][2] \in {"launch", "found"} =>
         \A n \in DOMAIN calls[t] : calls[t][n] = <<calls[t][m][1], "launch">> => m = n
  /\ \A port \in RemotePorts :
       launches[port] =
         Cardinality({x \in UNION {{t} \X DOMAIN calls[t] : t \in Tasks} :
                        /\ calls[x[1]][x[2]][2] = "launch"
                        /\ RemotePortOf(x[1], calls[x[1]][x[2]][1]) = port})

C13_Witness ==
  \E t \in Tasks :
    /\ task[t].pc = "returned"
    /\ Count(calls[t], <<1, "free">>) = 1 /\ Count(calls[t], <<1, "launch">>) = 1
    /\ Count(calls[t], <<2, "found">>) = 1 /\ Count(calls[t], <<2, "launch">>) = 0
    /\ Count(calls[t], <<2, "forward">>) = 1

\* C14: when PortForward has given up on a forwarder it started and returned
\* its error, the background forwarder terminates, whether or not it came to
\* listen in the meantime, and then holds no local port (or the process has
\* ended altogether): it does not stay running or listening for ever.
C14_TimedOutForwarderEnds ==
  \A h \in Handles :
    (Started(h) /\ GaveError(h)) ~> (fw[h].st = "exited" \/ ~Alive)

C14_Witness ==
  \E h \in Handles :
    /\ Started(h) /\ GaveError(h)
    /\ ~fw[h].ready /\ fw[h].stop = "closed"
    /\ fw[h].st = "exited"
    /\ task[h[1]].pc = "returned" /\ task[h[1]].ret.err

\* C15: in the lifetime of the process a context is inserted into the
\* registry at most once: no assignment replaces an entry that exists.
C15_ContextInsertedOnce ==
  \A c \in Contexts : writes[c] <= 1

\* C16: the services of one Forward call are bootstrapped concurrently: while
\* one of them is blocked in the readiness wait of its port-forward, a
\* configured service of the same request that has not been started yet can
\* be started.
C16_BlockedServiceDoesNotDelaySiblings ==
  \A t \in Tasks :
    (/\ Alive /\ task[t].pc = "select"
     /\ \E k \in DOMAIN task[t].services : k > task[t].k /\ Configured(t, k))
      => ENABLED ServiceLoop(t)

\* The steps of a tunnel bootstrap, in the order of startTunnel.
Steps == <<"tunnel", "locate", "init", "run", "forward">>
StepNames == {"tunnel", "locate", "init", "run", "forward"}
\* The steps issued for the k-th service of task t, in order.
StepsOf(t, k) == SelectSeq(calls[t], LAMBDA c : c[1] = k /\ c[2] \in StepNames)

\* C17: the steps of a tunnel bootstrap are issued in the order locate pod,
\* init script, relay start script, port-forward, each at most once; nothing
\* is issued after a step that failed, and a bootstrap with a failed step
\* has its error, no stop handle and no port-forward started; a port-forward
\* is started only after all the steps before it were issued without failure.
C17_StepsInOrderUntilFailure ==
  \A t \in Tasks : \A k \in 1..MaxServices :
    LET ops == OpsOf(t, k)
        steps == StepsOf(t, k)
    IN /\ Len(steps) <= Len(Steps)
       /\ \A n \in DOMAIN steps : steps[n][2] = Steps[n]
       /\ \A n \in DOMAIN ops :
            ops[n][2] = "failed" =>
              /\ n = Len(ops)
              /\ GaveError(<<t, k>>) /\ ~GaveHandle(<<t, k>>)
              /\ ~Started(<<t, k>>)
       /\ Started(<<t, k>>) =>
            /\ Len(steps) = Len(Steps)
            /\ \A n \in DOMAIN ops : ops[n][2] # "failed"
       /\ GaveHandle(<<t, k>>) => Started(<<t, k>>)

C17_Witness ==
  \E t \in Tasks :
    /\ task[t].pc = "returned"
    /\ OpsOf(t, 1) = << <<1, "tunnel">>, <<1, "locate">>, <<1, "init">>, <<1, "failed">> >>
    /\ GaveError(<<t, 1>>)
    /\ Len(StepsOf(t, 2)) = Len(Steps) /\ GaveHandle(<<t, 2>>)

\* The Forward call of task t has accounted for every requested service: it
\* returned early without a handle, or handles and failures add up to the
\* request.
Concluded(t) ==
  LET r == task[t].ret
  IN IF r.err /\ r.total = 0 THEN r.handles = << >>
     ELSE Len(r.handles) + r.failed = Len(task[t].services)

\* C18: from the tunnel count and the summary on (the wait for the signal
\* and the shutdown included) every site of the session was skipped or its
\* goroutine has finished, every Forward call has accounted for each of its
\* services, and no PortForward call is still waiting for readiness.
C18_SummaryAfterAllConcluded ==
  (Alive /\ mainPc \in {"count", "blocked", "stopping"}) =>
    /\ wg = 0
    /\ i > Len(sitesToUse)
    /\ \A n \in DOMAIN sitesToUse :
         \/ task[n].pc = "done" /\ task[n].site = sitesToUse[n] /\ Concluded(n)
         \/ task[n].pc = "none" /\ sitesToUse[n] \notin DOMAIN Cfg
    /\ \A t \in Tasks : task[t].pc \in {"none", "done"}
    /\ \A h \in Handles :
         Started(h) => (h \in established \/ fw[h].stop = "closed")

C18_Witness ==
  /\ Alive /\ mainPc = "blocked"
  /\ Len(sitesToUse) = 2
  /\ task[1].pc = "done" /\ task[2].pc = "done"
  /\ \E t \in {1, 2} : task[t].ret.err /\ task[t].ret.failed >= 1
  /\ \E h \in Handles : Started(h) /\ h \notin established

\* The registry lock is held by a goroutine only at the map operation it
\* protects: not while it builds a client or uses one.
RegistryLockOnlyAtMapOp ==
  /\ mutex.w # 0 => mutex.r = {}
  /\ \A p \in Callers :
       /\ mutex.w = p => rp[p].pc = "insert"
       /\ p \in mutex.r => rp[p].pc = "read"
\* A site goroutine holds mu only at its append: not inside Forward.
TaskLockOnlyAtAppend ==
  \A t \in Tasks : mu = <<"task", t>> <=> task[t].pc = "merge"

\* C19: the lock of the client registry and the lock of the stop-handle list
\* are held only for the single map or list operation: by no goroutine at a
\* blocking or remote step, and by nobody while a stop handle is invoked.
C19_LocksOnlyAroundOneOperation ==
  /\ []RegistryLockOnlyAtMapOp
  /\ []TaskLockOnlyAtAppend
  /\ [][stopCalls' # stopCalls => mu = << >>]_vars

\* C19 as the code has it: the registry lock is held only at the map
\* operation and a site goroutine holds mu only at its append, never at a
\* blocking or remote step; run takes mu for the whole shutdown loop, and
\* every stop handle is invoked with run holding it.
C19_LocksOnlyAroundOneOperationOrShutdownLoop ==
  /\ []RegistryLockOnlyAtMapOp
  /\ []TaskLockOnlyAtAppend
  /\ [](mu = <<"main">> => mainPc = "stopping")
  /\ [][stopCalls' # stopCalls => (mu = <<"main">> /\ mu' = <<"main">>)]_vars

C19_Witness ==
  /\ Alive /\ mainPc = "stopping" /\ mu = <<"main">>
  /\ j = 2 /\ Len(allActiveStopFuncs) = 2
  /\ stopCalls[allActiveStopFuncs[1]] = 1

\* A step of stopping: a stop handle is invoked, the shutdown of the session
\* begins, goes on or ends, or a forwarder that listened ends.
StopStep ==
  \/ stopCalls' # stopCalls
  \/ mainPc = "stopping" \/ mainPc' = "stopping"
  \/ \E h \in Handles : fw[h].st = "listening" /\ fw'[h].st = "exited"

\* C20: invoking a stop handle, and the shutdown of the session from the
\* receipt of the signal to the exit, change nothing in the pod: no relay is
\* launched or ended, no tool, script or log is touched, and no remote
\* command is issued.
C20_StopLeavesPodAlone ==
  [][StopStep => (pod' = pod /\ launches' = launches /\ calls' = calls)]_vars

C20_Witness ==
  /\ proc = "exited" /\ mainPc = "done"
  /\ \E h \in established :
       /\ stopCalls[h] = 1 /\ fw[h].st = "exited"
       /\ RemotePortOf(h[1], h[2]) \in pod.listening \cap pod.scripts \cap pod.logs

\* C21: in a session whose site tasks relay to the same port of the same
\* pod, the relay launch command is issued for that port by at most one of
\* them: the pod (which starts with no relay and has lsof) never sees a
\* second launch for a port.
C21_OneLaunchPerPort ==
  \A port \in RemotePorts : launches[port] <= 1

\* The background forwarder of h failed and ended without signalling
\* readiness.
FailedBeforeReady(h) == fw[h].st = "exited" /\ ~fw[h].ready

\* C22: for a forwarder that failed and ended before it signalled readiness
\* PortForward never returns a stop handle: while it still waits it has
\* returned nothing, and then it closes the stop channel without a panic and
\* returns an error, which Forward counts once as the failure of that
\* service in what it returns.
C22_FailedForwarderGivesError ==
  \A h \in Handles :
    FailedBeforeReady(h) =>
      /\ proc = "running"
      /\ ~GaveHandle(h) /\ h \notin established
      /\ Selecting(h) => (~GaveError(h) /\ fw[h].stop = "open")
      /\ ~Selecting(h) =>
           /\ GaveError(h) /\ fw[h].stop = "closed"
           /\ Count(task[h[1]].errs, <<h[2], "tunnel">>)
                + Count(task[h[1]].ret.causes, <<h[2], "tunnel">>) = 1
           /\ task[h[1]].pc = "returned" =>
                (task[h[1]].ret.err /\ task[h[1]].ret.failed >= 1)

C22_Witness ==
  \E g, h \in Handles :
    /\ g[1] = h[1] /\ g[2] < h[2]
    /\ task[h[1]].pc = "returned"
    /\ g \in established /\ fw[g].st = "listening"
    /\ FailedBeforeReady(h) /\ GaveError(h) /\ fw[h].stop = "closed"
    /\ LocalPortOf(g) = LocalPortOf(h)
    /\ task[h[1]].ret.failed = 1 /\ Len(task[h[1]].ret.handles) = 1
====
